---- MODULE Spec2Model ----
(***************************************************************************)
(* Model of convert_to_word.py: main() probes for pandoc, converts the     *)
(* fixed Markdown file to a Word document with it, and falls back to       *)
(* printing manual instructions.  One run of main() is a walk through the  *)
(* program counter pc; the file system, the standard output and the list   *)
(* of subprocess.run calls are the observable state.  The process is run   *)
(* up to MaxRuns times over the same file system.                          *)
(***************************************************************************)
EXTENDS Integers, Sequences, FiniteSets, TLC

VARIABLES
    pc,            \* position of main() / convert_with_pandoc()
    run,           \* number of the current process run, 1..MaxRuns
    cwd,           \* working directory of the process
    fs,            \* file system: path -> content, or "absent"
    fs0,           \* the file system as it was when the current run started
    stdout,        \* lines printed so far in this run
    calls,         \* argument lists handed to subprocess.run in this run
    probeOutcome,  \* what the 'pandoc --version' call did
    pandocFound,   \* return value of check_pandoc(): "none" until it returned
    inputExists,   \* result of os.path.exists(input_file): "none" until evaluated
    convOutcome,   \* what the conversion subprocess.run call did
    convertRet,    \* return value of convert_with_pandoc(): "none" until it returned
    prev           \* summary of the previous run

vars == <<pc, run, cwd, fs, fs0, stdout, calls, probeOutcome, pandocFound,
          inputExists, convOutcome, convertRet, prev>>

\* ------------------------------------------------------------------ bounds
MaxRuns == 2

\* ------------------------------------------------------- program constants
input_file  == "Game_Architecture_Documentation.md"
output_file == "Game_Architecture_Documentation.docx"

\* A path that is neither the input nor the output of the program.
other_file  == "Game_Architecture_Documentation (1).docx"

Paths == {input_file, output_file, other_file}

\* Working directories the process may be started in.
Cwds == {"/home/dev/game", "/tmp/docs"}

\* Contents the Markdown file may have.
MdContents == {"md-A", "md-B"}

\* What the external tool writes for a given Markdown content when it succeeds.
ToDocx(md) == CASE md = "md-A" -> "docx-of-md-A"
                [] md = "md-B" -> "docx-of-md-B"
                [] OTHER       -> "docx-of-nothing"

\* Texts the tool may leave on its error stream.
StderrTexts == {"", "pandoc: unrecognized option", "pandoc: out of memory"}

\* Exceptions subprocess.run may raise instead of returning.
RunExceptions == {"FileNotFoundError", "PermissionError"}

\* Outcomes of subprocess.run(['pandoc', '--version'], check=True):
\*   exit0     the tool ran and exited 0
\*   nonzero   the tool ran and exited non-zero: check=True raises CalledProcessError
\*   notfound  no executable named pandoc: FileNotFoundError
\*   oserror   any other OSError (e.g. PermissionError), which line 16 does not catch
ProbeOutcomes == {"exit0", "nonzero", "notfound", "oserror"}

NoConv == [kind |-> "none", text |-> "", wrote |-> FALSE]

\* Outcomes of subprocess.run(cmd, capture_output=True, text=True):
\*   exit0   returncode 0
\*   exitN   returncode non-zero, text on stderr; the tool may or may not have
\*           left a partial output file behind (wrote)
\*   raise   the call raised (tool vanished after the probe, undecodable output)
ConvOutcomes ==
    {[kind |-> "exit0", text |-> t, wrote |-> TRUE] : t \in {""}}
    \cup {[kind |-> "exitN", text |-> t, wrote |-> w] : t \in StderrTexts, w \in BOOLEAN}
    \cup {[kind |-> "raise", text |-> e, wrote |-> FALSE] : e \in RunExceptions}

\* ------------------------------------------------------------ the commands
probe_cmd == <<"pandoc", "--version">>

\* Variant: the table-of-contents flag is left out.
cmd_no_toc == <<"pandoc", input_file, "-o", output_file,
                "--from", "markdown", "--to", "docx",
                "--standalone", "--number-sections">>

\* Variant: a later run writes to a renamed output instead of overwriting.
cmd_numbered == <<"pandoc", input_file, "-o",
                  IF run = 1 THEN output_file ELSE other_file,
                  "--from", "markdown", "--to", "docx",
                  "--standalone", "--toc", "--number-sections">>

cmd == <<"pandoc", input_file, "-o", output_file,
         "--from", "markdown", "--to", "docx",
         "--standalone", "--toc", "--number-sections">>

\* The file the tool is told to read, and the one it is told to write (after -o).
ArgInput(args)  == args[2]
ArgOutput(args) == args[4]

\* Effect of one run of the external tool on the file system.
PandocEffect(f, args, oc) ==
    CASE oc.kind = "exit0" -> [f EXCEPT ![ArgOutput(args)] = ToDocx(f[ArgInput(args)])]
      [] oc.kind = "exitN" /\ oc.wrote -> [f EXCEPT ![ArgOutput(args)] = "partial"]
      [] OTHER -> f

\* ------------------------------------------------------------ pure helpers
\* os.path.abspath of a relative path: the working directory joined with it.
abspath(dir, p) == <<dir, "/", p>>

\* Variant: check=True is missing, so a non-zero exit of the probe counts as found.
check_pandoc_unchecked(oc) ==
    CASE oc = "exit0"    -> "True"
      [] oc = "nonzero"  -> "True"
      [] oc = "notfound" -> "False"
      [] OTHER           -> "raise"

\* check_pandoc(): the value returned for an outcome of the probe;
\* "raise" when the exception is not one of the two that are caught.
check_pandoc(oc) ==
    CASE oc = "exit0"    -> "True"
      [] oc = "nonzero"  -> "False"
      [] oc = "notfound" -> "False"
      [] OTHER           -> "raise"

\* ---------------------------------------------------------------- messages
\* A printed line is the format string followed by the values put into it.
MsgBanner == << <<"Game Architecture Documentation Converter">>,
                <<"==================================================">> >>

MsgInputMissing(f) == <<"Error: {} not found!", f>>

MsgConverted(f) == <<"Successfully converted to {}", f>>

MsgLocation(dir, f) == <<"File location: {}">> \o abspath(dir, f)

\* Variant: the failure line is printed without the captured error stream.
MsgConversionFailed_NoStderr(result) == <<"Conversion failed: {}", "">>

MsgConversionFailed(result) == <<"Conversion failed: {}", result.text>>

MsgConversionError(e) == <<"Error during conversion: {}", e>>

MsgPandocFound == <<"Pandoc found! Attempting automatic conversion...">>

MsgCompleted == << <<"Conversion completed successfully!">>,
                   <<"You can now open the Word document and format it as needed.">> >>

MsgAutoFailed == <<"Automatic conversion failed. Using manual instructions...">>

MsgPandocNotFound == <<"Pandoc not found. Using manual conversion instructions...">>

manual_conversion_instructions ==
    << <<"============================================================">>,
       <<"MANUAL CONVERSION INSTRUCTIONS">>,
       <<"============================================================">>,
       <<"If pandoc is not available, you can manually convert the documentation:">>,
       <<"1. Copy the content from 'Game_Architecture_Documentation.md'">>,
       <<"2. Open Microsoft Word">>,
       <<"3. Create a new document">>,
       <<"4. Paste the content">>,
       <<"5. Apply formatting:">>,
       <<"   - Use Heading 1 for main sections">>,
       <<"   - Use Heading 2 for subsections">>,
       <<"   - Use Heading 3 for sub-subsections">>,
       <<"   - Format code blocks with monospace font">>,
       <<"   - Add page breaks between major sections">>,
       <<"6. For the architecture diagram:">>,
       <<"   - Copy the ASCII diagram">>,
       <<"   - Use a monospace font (like Courier New)">>,
       <<"   - Or recreate it using Word's drawing tools">>,
       <<"7. Save as .docx format">>,
       <<"============================================================">> >>

MsgTips == << <<"Additional Tips:">>,
              <<"- The Markdown file contains all the content you need">>,
              <<"- The ASCII diagram can be enhanced with Word's drawing tools">>,
              <<"- Consider adding screenshots of the game for visual appeal">>,
              <<"- Use Word's built-in table of contents feature">> >>

\* ------------------------------------------------------------------- Init
Init ==
    /\ pc = "start"
    /\ run = 1
    /\ cwd \in Cwds
    /\ fs \in {f \in [Paths -> MdContents \cup {"absent", "old"}] :
                 /\ f[input_file] \in MdContents \cup {"absent"}
                 /\ f[output_file] \in {"absent", "old"}
                 /\ f[other_file] \in {"absent", "old"}}
    /\ fs0 = fs
    /\ stdout = <<>>
    /\ calls = <<>>
    /\ probeOutcome = "none"
    /\ pandocFound = "none"
    /\ inputExists = "none"
    /\ convOutcome = NoConv
    /\ convertRet = "none"
    /\ prev = [kind |-> "norun", input |-> "absent", fsEnd |-> fs]

\* ---------------------------------------------------------------- actions
\* main(), lines 80-81: the banner.
MainBanner ==
    /\ pc = "start"
    /\ stdout' = stdout \o MsgBanner
    /\ pc' = "check_pandoc"
    /\ UNCHANGED <<run, cwd, fs, fs0, calls, probeOutcome, pandocFound,
                   inputExists, convOutcome, convertRet, prev>>

\* check_pandoc(), called from line 84: one probe call; an exception other
\* than the two caught ones leaves main() through the top of the stack.
CheckPandoc ==
    /\ pc = "check_pandoc"
    /\ \E oc \in ProbeOutcomes :
         /\ calls' = Append(calls, probe_cmd)
         /\ probeOutcome' = oc
         /\ IF check_pandoc(oc) = "raise"
               THEN /\ pc' = "crashed"
                    /\ UNCHANGED pandocFound
               ELSE /\ pc' = "main_branch"
                    /\ pandocFound' = check_pandoc(oc)
    /\ UNCHANGED <<run, cwd, fs, fs0, stdout, inputExists, convOutcome,
                   convertRet, prev>>

\* main(), lines 84-85 and 92-94: the branch on check_pandoc()'s value.
MainBranch ==
    /\ pc = "main_branch"
    /\ IF pandocFound = "True"
          THEN /\ stdout' = Append(stdout, MsgPandocFound)
               /\ pc' = "convert_exists"
          ELSE /\ stdout' = Append(stdout, MsgPandocNotFound)
                              \o manual_conversion_instructions
               /\ pc' = "tips"
    /\ UNCHANGED <<run, cwd, fs, fs0, calls, probeOutcome, pandocFound,
                   inputExists, convOutcome, convertRet, prev>>

\* Variant: the existence check is missing; the tool is always invoked.
ConvertExists_NoCheck ==
    /\ pc = "convert_exists"
    /\ inputExists' = IF fs[input_file] = "absent" THEN "False" ELSE "True"
    /\ pc' = "convert_run"
    /\ UNCHANGED <<run, cwd, fs, fs0, stdout, calls, probeOutcome, pandocFound,
                   convOutcome, convertRet, prev>>

\* Variant: a missing input makes the function return False without a report.
ConvertExists_Silent ==
    /\ pc = "convert_exists"
    /\ IF fs[input_file] = "absent"
          THEN /\ inputExists' = "False"
               /\ convertRet' = "False"
               /\ pc' = "after_convert"
          ELSE /\ inputExists' = "True"
               /\ pc' = "convert_run"
               /\ UNCHANGED convertRet
    /\ UNCHANGED <<run, cwd, fs, fs0, stdout, calls, probeOutcome, pandocFound,
                   convOutcome, prev>>

\* Variant: a stale output file is removed before the input is checked.
ConvertExists_RemoveStale ==
    /\ pc = "convert_exists"
    /\ fs' = [fs EXCEPT ![output_file] = "absent"]
    /\ IF fs[input_file] = "absent"
          THEN /\ inputExists' = "False"
               /\ stdout' = Append(stdout, MsgInputMissing(input_file))
               /\ convertRet' = "False"
               /\ pc' = "after_convert"
          ELSE /\ inputExists' = "True"
               /\ pc' = "convert_run"
               /\ UNCHANGED <<stdout, convertRet>>
    /\ UNCHANGED <<run, cwd, fs0, calls, probeOutcome, pandocFound,
                   convOutcome, prev>>

\* convert_with_pandoc(), lines 21-26: the existence check of the input.
ConvertExists ==
    /\ pc = "convert_exists"
    /\ IF fs[input_file] = "absent"
          THEN /\ inputExists' = "False"
               /\ stdout' = Append(stdout, MsgInputMissing(input_file))
               /\ convertRet' = "False"
               /\ pc' = "after_convert"
          ELSE /\ inputExists' = "True"
               /\ pc' = "convert_run"
               /\ UNCHANGED <<stdout, convertRet>>
    /\ UNCHANGED <<run, cwd, fs, fs0, calls, probeOutcome, pandocFound,
                   convOutcome, prev>>

\* Variant: the return code is not looked at; a returning call counts as success.
ConvertRun_IgnoreCode ==
    /\ pc = "convert_run"
    /\ \E oc \in ConvOutcomes :
         /\ calls' = Append(calls, cmd)
         /\ convOutcome' = oc
         /\ fs' = PandocEffect(fs, cmd, oc)
         /\ CASE oc.kind \in {"exit0", "exitN"} ->
                   /\ stdout' = stdout \o << MsgConverted(output_file),
                                             MsgLocation(cwd, output_file) >>
                   /\ convertRet' = "True"
              [] OTHER ->
                   /\ stdout' = Append(stdout, MsgConversionError(oc.text))
                   /\ convertRet' = "False"
    /\ pc' = "after_convert"
    /\ UNCHANGED <<run, cwd, fs0, probeOutcome, pandocFound, inputExists, prev>>

\* Variant: a failed conversion call is attempted a second time.
ConvertRun_Retry ==
    /\ pc = "convert_run"
    /\ \E oc \in ConvOutcomes :
         /\ calls' = IF oc.kind = "exit0" THEN Append(calls, cmd)
                                          ELSE calls \o <<cmd, cmd>>
         /\ convOutcome' = oc
         /\ fs' = PandocEffect(fs, cmd, oc)
         /\ CASE oc.kind = "exit0" ->
                   /\ stdout' = stdout \o << MsgConverted(output_file),
                                             MsgLocation(cwd, output_file) >>
                   /\ convertRet' = "True"
              [] oc.kind = "exitN" ->
                   /\ stdout' = Append(stdout, MsgConversionFailed(oc))
                   /\ convertRet' = "False"
              [] OTHER ->
                   /\ stdout' = Append(stdout, MsgConversionError(oc.text))
                   /\ convertRet' = "False"
    /\ pc' = "after_convert"
    /\ UNCHANGED <<run, cwd, fs0, probeOutcome, pandocFound, inputExists, prev>>

\* convert_with_pandoc(), lines 28-53: the conversion call and its report.
ConvertRun ==
    /\ pc = "convert_run"
    /\ \E oc \in ConvOutcomes :
         /\ calls' = Append(calls, cmd)
         /\ convOutcome' = oc
         /\ fs' = PandocEffect(fs, cmd, oc)
         /\ CASE oc.kind = "exit0" ->
                   /\ stdout' = stdout \o << MsgConverted(output_file),
                                             MsgLocation(cwd, output_file) >>
                   /\ convertRet' = "True"
              [] oc.kind = "exitN" ->
                   /\ stdout' = Append(stdout, MsgConversionFailed(oc))
                   /\ convertRet' = "False"
              [] OTHER ->
                   /\ stdout' = Append(stdout, MsgConversionError(oc.text))
                   /\ convertRet' = "False"
    /\ pc' = "after_convert"
    /\ UNCHANGED <<run, cwd, fs0, probeOutcome, pandocFound, inputExists, prev>>

\* Variant: the else is missing; the manual instructions follow in both cases.
MainAfterConvert_NoElse ==
    /\ pc = "after_convert"
    /\ IF convertRet = "True"
          THEN stdout' = stdout \o MsgCompleted \o manual_conversion_instructions
          ELSE stdout' = Append(stdout, MsgAutoFailed)
                           \o manual_conversion_instructions
    /\ pc' = "tips"
    /\ UNCHANGED <<run, cwd, fs, fs0, calls, probeOutcome, pandocFound,
                   inputExists, convOutcome, convertRet, prev>>

\* main(), lines 86-91: the branch on convert_with_pandoc()'s value.
MainAfterConvert ==
    /\ pc = "after_convert"
    /\ IF convertRet = "True"
          THEN stdout' = stdout \o MsgCompleted
          ELSE stdout' = Append(stdout, MsgAutoFailed)
                           \o manual_conversion_instructions
    /\ pc' = "tips"
    /\ UNCHANGED <<run, cwd, fs, fs0, calls, probeOutcome, pandocFound,
                   inputExists, convOutcome, convertRet, prev>>

\* main(), lines 96-100: the closing tips; main() returns.
MainTips ==
    /\ pc = "tips"
    /\ stdout' = stdout \o MsgTips
    /\ pc' = "done"
    /\ UNCHANGED <<run, cwd, fs, fs0, calls, probeOutcome, pandocFound,
                   inputExists, convOutcome, convertRet, prev>>

\* The script is started again (lines 102-103) after the previous process
\* ended; in between, the user may have edited, removed or restored the
\* Markdown file.
NextRun ==
    /\ pc \in {"done", "crashed"}
    /\ run < MaxRuns
    /\ run' = run + 1
    /\ \E c \in MdContents \cup {"absent"} :
         /\ fs' = [fs EXCEPT ![input_file] = c]
         /\ fs0' = fs'
    /\ prev' = [kind |-> convOutcome.kind, input |-> fs[input_file], fsEnd |-> fs]
    /\ pc' = "start"
    /\ stdout' = <<>>
    /\ calls' = <<>>
    /\ probeOutcome' = "none"
    /\ pandocFound' = "none"
    /\ inputExists' = "none"
    /\ convOutcome' = NoConv
    /\ convertRet' = "none"
    /\ UNCHANGED cwd

\* One step of the running program.
MainStep ==
    \/ MainBanner
    \/ CheckPandoc
    \/ MainBranch
    \/ ConvertExists
    \/ ConvertRun
    \/ MainAfterConvert
    \/ MainTips

Next ==
    \/ MainBanner
    \/ CheckPandoc
    \/ MainBranch
    \/ ConvertExists
    \/ ConvertRun
    \/ MainAfterConvert
    \/ MainTips
    \/ NextRun

Spec == Init /\ [][Next]_vars

\* Every subprocess call returns and the interpreter keeps executing.
FairSpec == Spec /\ WF_vars(MainStep)

\* ------------------------------------------------- reading stdout and calls
\* The line m has been printed in this run.
Printed(m) == \E i \in 1..Len(stdout) : stdout[i] = m

\* The block of manual instructions, as manual_conversion_instructions() prints it.
ManualBlock ==
    << <<"============================================================">>,
       <<"MANUAL CONVERSION INSTRUCTIONS">>,
       <<"============================================================">>,
       <<"If pandoc is not available, you can manually convert the documentation:">>,
       <<"1. Copy the content from 'Game_Architecture_Documentation.md'">>,
       <<"2. Open Microsoft Word">>,
       <<"3. Create a new document">>,
       <<"4. Paste the content">>,
       <<"5. Apply formatting:">>,
       <<"   - Use Heading 1 for main sections">>,
       <<"   - Use Heading 2 for subsections">>,
       <<"   - Use Heading 3 for sub-subsections">>,
       <<"   - Format code blocks with monospace font">>,
       <<"   - Add page breaks between major sections">>,
       <<"6. For the architecture diagram:">>,
       <<"   - Copy the ASCII diagram">>,
       <<"   - Use a monospace font (like Courier New)">>,
       <<"   - Or recreate it using Word's drawing tools">>,
       <<"7. Save as .docx format">>,
       <<"============================================================">> >>

\* The manual instructions occupy stdout from line i on.
ManualAt(i) ==
    /\ i \in 1..Len(stdout)
    /\ i + Len(ManualBlock) - 1 <= Len(stdout)
    /\ SubSeq(stdout, i, i + Len(ManualBlock) - 1) = ManualBlock

ManualStarts == {i \in 1..Len(stdout) : ManualAt(i)}

ManualEmitted == ManualStarts # {}

\* main()'s confirmation of success.
SuccessConfirmed == Printed(<<"Conversion completed successfully!">>)

\* A call of subprocess.run other than the version probe.
IsConversionCall(args) == args # <<"pandoc", "--version">>

ConversionCalls == {i \in 1..Len(calls) : IsConversionCall(calls[i])}

ProbeCalls == {i \in 1..Len(calls) : calls[i] = <<"pandoc", "--version">>}

\* The argument list the conversion is to be started with.
FixedArgs == <<"pandoc", "Game_Architecture_Documentation.md",
               "-o", "Game_Architecture_Documentation.docx",
               "--from", "markdown", "--to", "docx",
               "--standalone", "--toc", "--number-sections">>

InputAbsent == fs0["Game_Architecture_Documentation.md"] = "absent"

\* main() has returned.
Returned == pc = "done"

\* ------------------------------------------------------------------ claims

\* C1: in a run in which the input file is absent, whatever the probe found,
\* no conversion subprocess is ever spawned, and a run of main() that returns
\* has printed the manual instructions.
C1_InputAbsentNoConversion ==
    InputAbsent =>
        /\ ConversionCalls = {}
        /\ Returned => ManualEmitted

C1_Witness ==
    /\ Returned
    /\ InputAbsent
    /\ probeOutcome = "exit0"
    /\ inputExists = "False"
    /\ ManualEmitted
    /\ ConversionCalls = {}

\* C2: when the probe raises 'not found' or exits with a non-success status,
\* check_pandoc() returns false, main() prints the 'Pandoc not found' line
\* directly followed by the manual instructions, and no conversion subprocess
\* is spawned; check_pandoc() returns true only after a probe that ran and
\* exited with success.
C2_ProbeFailureFallsBack ==
    /\ probeOutcome \in {"notfound", "nonzero"} =>
          /\ pandocFound = "False"
          /\ ConversionCalls = {}
          /\ inputExists = "none"
          /\ Returned =>
                \E i \in 1..Len(stdout) :
                    /\ stdout[i] = <<"Pandoc not found. Using manual conversion instructions...">>
                    /\ ManualAt(i + 1)
    /\ pandocFound = "True" => probeOutcome = "exit0"

C2_Witness ==
    /\ Returned
    /\ probeOutcome = "nonzero"
    /\ pandocFound = "False"
    /\ ManualEmitted
    /\ Len(calls) = 1

\* C3: when the probe succeeded and the input file exists, once
\* convert_with_pandoc() has returned exactly one conversion call has been
\* made, with the fixed argument list, whatever that call then did.
C3_OneConversionFixedArgs ==
    (pandocFound = "True" /\ ~InputAbsent /\ pc \in {"after_convert", "tips", "done"}) =>
        /\ Cardinality(ConversionCalls) = 1
        /\ \A i \in ConversionCalls : calls[i] = FixedArgs

C3_Witness ==
    /\ Returned
    /\ pandocFound = "True"
    /\ ~InputAbsent
    /\ convOutcome.kind = "exitN"
    /\ Len(calls) = 2
    /\ calls[2] = FixedArgs

\* C4: with the tool present or absent (the probe exits zero, exits non-zero
\* or raises 'not found'), the input present or absent and any outcome of
\* the conversion call, main() is left only by returning, every run reaches
\* that return, and a returned run has printed the success confirmation or
\* the manual instructions, exactly one of the two and the instructions once.
C4_Safe ==
    /\ pc = "crashed" => probeOutcome = "oserror"
    /\ Returned =>
          /\ SuccessConfirmed # ManualEmitted
          /\ Cardinality(ManualStarts) <= 1

C4_CompletesWithOneReport ==
    /\ []C4_Safe
    /\ (pc = "start") ~> (Returned \/ probeOutcome = "oserror")

C4_Witness ==
    /\ Returned
    /\ convOutcome.kind = "raise"
    /\ ManualEmitted
    /\ ~SuccessConfirmed

\* C5 as stated: in every returned run in which the input file is absent,
\* whatever the probe found, the 'not found' error for the input file is
\* printed before the manual instructions.
C5_MissingInputAlwaysReported ==
    (Returned /\ InputAbsent) =>
        \E i, j \in 1..Len(stdout) :
            /\ i < j
            /\ stdout[i] = <<"Error: {} not found!", "Game_Architecture_Documentation.md">>
            /\ ManualAt(j)

\* C5 amended: in every returned run in which the input file is absent, the
\* 'not found' error for the input file is printed before the manual
\* instructions when check_pandoc() returned true; when it returned false the
\* input file is never looked at and the error is not printed.
C5_MissingInputReportedAfterProbe ==
    (Returned /\ InputAbsent) =>
        /\ pandocFound = "True" =>
              \E i, j \in 1..Len(stdout) :
                  /\ i < j
                  /\ stdout[i] = <<"Error: {} not found!", "Game_Architecture_Documentation.md">>
                  /\ ManualAt(j)
                  /\ \A k \in ManualStarts : i < k
        /\ pandocFound = "False" =>
              /\ inputExists = "none"
              /\ ~Printed(<<"Error: {} not found!", "Game_Architecture_Documentation.md">>)
              /\ ManualEmitted

C5_Witness ==
    /\ Returned
    /\ InputAbsent
    /\ pandocFound = "True"
    /\ Printed(<<"Error: {} not found!", "Game_Architecture_Documentation.md">>)
    /\ ManualEmitted

\* C6: when the probe succeeded, the input file exists and the conversion
\* exited non-zero, a returned run has printed the failure line holding
\* exactly the captured error text, the manual instructions only after that
\* line, and none of the success lines.
C6_FailureTextThenManual ==
    (Returned /\ probeOutcome = "exit0" /\ ~InputAbsent /\ convOutcome.kind = "exitN") =>
        /\ \E i \in 1..Len(stdout) :
              /\ stdout[i] = <<"Conversion failed: {}", convOutcome.text>>
              /\ \A k \in ManualStarts : i < k
        /\ \A i \in 1..Len(stdout) :
              stdout[i][1] = "Conversion failed: {}" =>
                 stdout[i] = <<"Conversion failed: {}", convOutcome.text>>
        /\ ManualEmitted
        /\ ~SuccessConfirmed
        /\ \A i \in 1..Len(stdout) :
              stdout[i][1] \notin {"Successfully converted to {}", "File location: {}"}

C6_Witness ==
    /\ Returned
    /\ convOutcome.kind = "exitN"
    /\ convOutcome.text = "pandoc: unrecognized option"
    /\ Printed(<<"Conversion failed: {}", "pandoc: unrecognized option">>)
    /\ ManualEmitted

\* C7: when the input file exists, convert_with_pandoc() returns true exactly
\* when the conversion subprocess was run and exited 0; the line naming the
\* absolute output path and main()'s 'Conversion completed successfully'
\* line are printed in the returned runs with such a conversion and in no
\* others.
C7_SuccessIffExitZero ==
    /\ (inputExists = "True" /\ convertRet # "none") =>
          (convertRet = "True" <=>
              (ConversionCalls # {} /\ convOutcome.kind = "exit0"))
    /\ convertRet = "True" => inputExists = "True"
    /\ Returned =>
          /\ Printed(<<"File location: {}", cwd, "/",
                       "Game_Architecture_Documentation.docx">>)
                <=> (ConversionCalls # {} /\ convOutcome.kind = "exit0")
          /\ SuccessConfirmed
                <=> (ConversionCalls # {} /\ convOutcome.kind = "exit0")
          /\ \A i \in 1..Len(stdout) :
                stdout[i][1] = "File location: {}" => convOutcome.kind = "exit0"

C7_Witness ==
    /\ Returned
    /\ convertRet = "True"
    /\ convOutcome.kind = "exit0"
    /\ SuccessConfirmed
    /\ Printed(<<"File location: {}", cwd, "/", "Game_Architecture_Documentation.docx">>)

\* C8: when two runs in succession both convert successfully and the input
\* file is the same in both, the file system after the second run is the one
\* after the first: the output at the fixed path holds the conversion of the
\* input and no other path has changed.
C8_SecondRunOverwrites ==
    (Returned /\ convOutcome.kind = "exit0" /\ prev.kind = "exit0"
       /\ prev.input = fs["Game_Architecture_Documentation.md"]) =>
        /\ fs = prev.fsEnd
        /\ fs["Game_Architecture_Documentation.docx"]
              = ToDocx(fs["Game_Architecture_Documentation.md"])

C8_Witness ==
    /\ Returned
    /\ run = 2
    /\ convOutcome.kind = "exit0"
    /\ prev.kind = "exit0"
    /\ prev.input = fs["Game_Architecture_Documentation.md"]
    /\ fs0["Game_Architecture_Documentation.docx"] = "docx-of-md-A"
    /\ fs["Game_Architecture_Documentation.docx"] = "docx-of-md-A"

\* C9: within one run the version probe is the first subprocess call and is
\* made exactly once, the conversion call is made at most once and only
\* after check_pandoc() returned true and the existence check of the input
\* passed, and no call is repeated after a failure.
C9_CallOrderNoRetry ==
    /\ pc \in {"start", "check_pandoc"} => calls = <<>>
    /\ pc \notin {"start", "check_pandoc"} =>
          /\ Len(calls) >= 1
          /\ calls[1] = <<"pandoc", "--version">>
          /\ Cardinality(ProbeCalls) = 1
    /\ Cardinality(ConversionCalls) <= 1
    /\ ConversionCalls # {} =>
          /\ pandocFound = "True"
          /\ inputExists = "True"
          /\ ConversionCalls = {2}
    /\ (pandocFound = "False" \/ inputExists = "False") => Len(calls) = 1
    /\ convOutcome.kind \in {"exitN", "raise"} => Len(calls) = 2

C9_Witness ==
    /\ Returned
    /\ Len(calls) = 2
    /\ convOutcome.kind = "raise"
    /\ calls[1] = <<"pandoc", "--version">>

\* C10: in a run that has spawned no conversion subprocess every file is as
\* it was when the run started; in every run the input file, and every path
\* other than the fixed output path, is as it was when the run started.
C10_Frame ==
    /\ ConversionCalls = {} => fs = fs0
    /\ \A p \in Paths :
          p # "Game_Architecture_Documentation.docx" => fs[p] = fs0[p]

C10_Witness ==
    /\ Returned
    /\ pandocFound = "True"
    /\ inputExists = "False"
    /\ fs0["Game_Architecture_Documentation.docx"] = "old"
    /\ fs = fs0
====
